---- MODULE Spec2Model ----
(***************************************************************************)
(* Model of the vgsbackend server (src/server.js; src/unnamed/part_000 is  *)
(* an earlier revision with the same image handlers).                      *)
(*                                                                         *)
(* Three subsystems are modelled, each with its own next-state relation:   *)
(*   - the image asset store: the "pics" collection, the uploads directory *)
(*     and the handlers GET /api/images, GET /api/images/:key,             *)
(*     POST /api/upload, DELETE /api/images/:key;                          *)
(*   - admin registration: the users collection and POST /api/register;    *)
(*   - job applications: candidates.xlsx, POST /api/apply and              *)
(*     GET /api/applications/count.                                        *)
(*                                                                         *)
(* Every `await` of a handler is an interleaving point: a handler is a     *)
(* sequence of atomic steps, one per database or file operation, and the   *)
(* steps of different requests interleave freely.  fs.unlink is            *)
(* asynchronous: the handler only queues the removal, which the thread     *)
(* pool performs later.                                                    *)
(***************************************************************************)
EXTENDS Naturals, Sequences, FiniteSets, TLC

\* ------------------------------------------------------------------ bounds
MaxReqs == 2      \* image requests in one behaviour
MaxTime == 1      \* Date.now() ranges over 0..MaxTime
MaxRegs == 3      \* /api/register requests in one behaviour
MaxApps == 3      \* /api/apply and /api/applications/count requests

Reqs == 1..MaxReqs

\* Strings are sequences of one-character strings, so that the template
\* strings of the source are concatenations.
Keys == {<<"a">>, <<"b">>}
NoKey == <<>>                          \* req.body.key missing or ""
OrigNames == {<<"p", "/">>}            \* file.originalname
NoFile == <<>>                         \* req.file undefined / no document

BASE_URL == "http://localhost:4000"

\* ------------------------------------------------------------- pure parts
\* The characters kept by /[^a-zA-Z0-9.\-_]/g, among those the model uses.
SafeChars == {"a", "b", "p", "i", "m", "g", "e", "0", "1", "2", "3", ".", "-", "_"}

\* file.originalname.replace(/[^a-zA-Z0-9.\-_]/g, "_")
Sanitize(name) ==
  [i \in 1..Len(name) |-> IF name[i] \in SafeChars THEN name[i] ELSE "_"]

\* storage.filename: `${Date.now()}_${key}_${safe}` with key = req.body.key || "image"
Filename(t, key, originalname) ==
  LET safe == Sanitize(originalname)
      k    == IF key # NoKey THEN key ELSE <<"i", "m", "a", "g", "e">>
  IN  <<ToString(t), "_">> \o k \o <<"_">> \o safe

\* encodeURIComponent leaves A-Z a-z 0-9 - _ . ! ~ * ' ( ) and escapes the rest.
Unreserved == SafeChars \cup {"!", "~", "*", "'", "(", ")"} \cup {ToString(t) : t \in 0..(MaxTime + 1)}

RECURSIVE EncodeURIComponent(_)
EncodeURIComponent(s) ==
  IF s = <<>> THEN <<>>
  ELSE (IF Head(s) \in Unreserved THEN <<Head(s)>> ELSE <<"%", Head(s)>>)
       \o EncodeURIComponent(Tail(s))

\* `${BASE_URL}/uploads/${encodeURIComponent(req.file.filename)}`
FileUrl(filename) == <<BASE_URL, "/uploads/">> \o EncodeURIComponent(filename)

\* ------------------------------------------------------------------ state
VARIABLES
  now,        \* the value Date.now() returns
  images,     \* the "pics" collection: a set of documents [key, url, filename]
  files,      \* the uploads directory: filename -> id of the request that wrote it
  unlinkQ,    \* fs.unlink calls issued and not yet performed: [path, by]
  req,        \* the image requests, by id
  users,      \* the users collection
  reg,        \* the /api/register requests
  excel,      \* candidates.xlsx: <<>> when absent, else its rows
  app         \* the /api/apply and /api/applications/count requests

assetVars == <<now, images, files, unlinkQ, req>>
regVars   == <<users, reg>>
applyVars == <<excel, app>>
vars      == <<now, images, files, unlinkQ, req, users, reg, excel, app>>

Idle ==
  [op |-> "none", key |-> NoKey, pc |-> "idle", file |-> NoFile,
   existing |-> NoFile, status |-> 0, body |-> <<>>,
   failed |-> FALSE, escaped |-> FALSE]

Started  == {r \in Reqs : req[r].pc # "idle"}
InFlight == {r \in Reqs : req[r].pc \notin {"idle", "done"}}
Fresh(r) == r \in Reqs /\ r = Cardinality(Started) + 1

\* ------------------------------------------------- Metadata Store (mongoose)
\* Image.findOne({ key })
FindOne(docs, key) == {d \in docs : d.key = key}

\* Image.findOneAndUpdate({ key }, { key, url, filename }, { upsert: true, new: true })
FindOneAndUpdate(docs, key, url, filename) ==
  {d \in docs : d.key # key} \cup {[key |-> key, url |-> url, filename |-> filename]}

\* a findOneAndDelete whose filter is inverted: it keeps the document of the key
FindOneAndDeleteInverted(docs, key) == {d \in docs : d.key = key}

\* Image.findOneAndDelete({ key }): the collection without the document
FindOneAndDelete(docs, key) == {d \in docs : d.key # key}

\* the filename of the document FindOne returned, NoFile for null
FilenameOf(found) == IF found = {} THEN NoFile ELSE (CHOOSE d \in found : TRUE).filename

\* ------------------------------------------------------- response bodies
\* GET /api/images: for (const d of docs) map[d.key] = d.url
ListAllBody(docs) ==
  [k \in {d.key : d \in docs} |-> (CHOOSE d \in docs : d.key = k).url]

\* GET /api/images/:key
LookupResponse(docs, key) ==
  LET found == FindOne(docs, key)
  IN  IF found = {} THEN [status |-> 404, body |-> <<"Not found">>]
      ELSE LET doc == CHOOSE d \in found : TRUE
           IN  [status |-> 200, body |-> [key |-> doc.key, url |-> doc.url]]

\* the validations without the check of the key
ValidationErrorFileOnly(key, file) ==
  IF file = NoFile THEN "No file uploaded" ELSE ""

\* POST /api/upload, the two validations: the error message, "" when valid
ValidationError(key, file) ==
  IF key = NoKey THEN "Missing 'key' field"
  ELSE IF file = NoFile THEN "No file uploaded"
  ELSE ""

\* an upload that never unlinks the file it replaces
OldPathsKept(existing, file, dir) == {}

\* POST /api/upload: the paths the handler hands to fs.unlink
\* if (existing && existing.filename && existing.filename !== req.file.filename)
\*   if (fs.existsSync(oldPath)) fs.unlink(oldPath, () => {})
OldPaths(existing, file, dir) ==
  IF existing # NoFile /\ existing # file /\ existing \in DOMAIN dir
  THEN {existing} ELSE {}

\* DELETE /api/images/:key: if (doc?.filename) { if (fs.existsSync(oldPath)) fs.unlink(...) }
DeletedPaths(existing, dir) ==
  IF existing # NoFile /\ existing \in DOMAIN dir THEN {existing} ELSE {}

\* a DELETE that answers 404 when no document existed
DeleteResponseNotFound(existing, key) ==
  IF existing = NoFile
  THEN [status |-> 404, body |-> <<"Not found">>]
  ELSE [status |-> 200, body |-> [success |-> TRUE, key |-> key]]

\* DELETE /api/images/:key: res.json({ success: true, key })
DeleteResponse(existing, key) ==
  [status |-> 200, body |-> [success |-> TRUE, key |-> key]]



\* ------------------------------------------------- /api/register requests
Regs == 1..MaxRegs
Usernames == {"", "admin", "root"}     \* req.body.username, "" when missing
Passwords == {"", "pw"}                \* req.body.password, "" when missing

IdleReg ==
  [pc |-> "idle", username |-> "", password |-> "", existingAdmin |-> FALSE, status |-> 0]

FreshReg(r) == r \in Regs /\ r = Cardinality({q \in Regs : reg[q].pc # "idle"}) + 1

\* bcrypt.hash(password, 10)
Hash(password) == <<"$2a$10$", password>>

\* --------------------------------------------------- /api/apply requests
Apps == 1..MaxApps

IdleApp == [op |-> "none", pc |-> "idle", rows |-> <<>>, status |-> 0, count |-> 0]

FreshApp(r) == r \in Apps /\ r = Cardinality({q \in Apps : app[q].pc # "idle"}) + 1

\* lines 286-330: the workbook read from candidates.xlsx (empty when the file
\* is absent), the header row added to an empty sheet, then the data row
AddRow(sheet, row) ==
  (IF Len(sheet) = 0 THEN <<"Full Name">> ELSE sheet) \o <<row>>

\* lines 356-365: sheet.rowCount > 1 ? sheet.rowCount - 1 : 0, 0 without a file
CountRows(sheet) == IF Len(sheet) > 1 THEN Len(sheet) - 1 ELSE 0

\* the applications that were answered success
Acked == {r \in Apps : app[r].op = "apply" /\ app[r].pc = "done" /\ app[r].status = 200}

\* ------------------------------------------------------------------- Init
\* The collection and the uploads directory outlive the process: the server
\* starts on an empty store, or on what an earlier upload of key "a" at time 0
\* left (its document and its file, written by request 0).
InitialStores ==
  LET key == <<"a">>
      f   == Filename(0, key, CHOOSE n \in OrigNames : TRUE)
  IN  { [docs |-> {}, dir |-> <<>>],
        [docs |-> FindOneAndUpdate({}, key, FileUrl(f), f), dir |-> (f :> 0)] }

Init ==
  /\ now = 0
  /\ \E st \in InitialStores : images = st.docs /\ files = st.dir
  /\ unlinkQ = {}
  /\ req = [r \in Reqs |-> Idle]
  /\ users = {}
  /\ reg = [r \in Regs |-> IdleReg]
  /\ excel = <<>>
  /\ app = [r \in Apps |-> IdleApp]

\* ------------------------------------------------------ the image handlers
\* A handler without try/catch whose awaited promise rejects: the rejection
\* leaves the handler.  What the client then sees depends on the framework
\* version: no response at all (status 0), or the framework's own 500.
Escaped(r, op, key) ==
  \E st \in {0, 500} :
    req' = [req EXCEPT ![r] = [Idle EXCEPT !.op = op, !.key = key, !.pc = "done",
                                            !.status = st, !.failed = TRUE,
                                            !.escaped = TRUE]]

\* GET /api/images
ListAll(r) ==
  /\ Fresh(r)
  /\ req' = [req EXCEPT ![r] = [Idle EXCEPT !.op = "list", !.pc = "done",
                                            !.status = 200, !.body = ListAllBody(images)]]
  /\ UNCHANGED <<now, images, files, unlinkQ>> /\ UNCHANGED regVars /\ UNCHANGED applyVars

\* GET /api/images: Image.find() rejects
ListAllFail(r) ==
  /\ Fresh(r)
  /\ Escaped(r, "list", NoKey)
  /\ UNCHANGED <<now, images, files, unlinkQ>> /\ UNCHANGED regVars /\ UNCHANGED applyVars

\* GET /api/images/:key
Lookup(r, key) ==
  /\ Fresh(r)
  /\ LET res == LookupResponse(images, key)
     IN  req' = [req EXCEPT ![r] = [Idle EXCEPT !.op = "lookup", !.key = key,
                                                !.pc = "done", !.status = res.status,
                                                !.body = res.body]]
  /\ UNCHANGED <<now, images, files, unlinkQ>> /\ UNCHANGED regVars /\ UNCHANGED applyVars

\* GET /api/images/:key: Image.findOne() rejects
LookupFail(r, key) ==
  /\ Fresh(r)
  /\ Escaped(r, "lookup", key)
  /\ UNCHANGED <<now, images, files, unlinkQ>> /\ UNCHANGED regVars /\ UNCHANGED applyVars

\* POST /api/upload, upload.single("image"): multer names and writes the file
\* before the handler runs.
UploadMulter(r, key, originalname, hasFile) ==
  /\ Fresh(r)
  /\ LET f == IF hasFile THEN Filename(now, key, originalname) ELSE NoFile
     IN  /\ files' = IF hasFile THEN (f :> r) @@ files ELSE files
         /\ req' = [req EXCEPT ![r] = [Idle EXCEPT !.op = "upload", !.key = key,
                                                    !.file = f, !.pc = "handler"]]
  /\ UNCHANGED <<now, images, unlinkQ>> /\ UNCHANGED regVars /\ UNCHANGED applyVars

\* POST /api/upload, lines 151-157: the validations, then Image.findOne({ key })
UploadFindOne(r) ==
  /\ req[r].op = "upload" /\ req[r].pc = "handler"
  /\ LET err == ValidationError(req[r].key, req[r].file)
     IN  req' = [req EXCEPT ![r] =
                   IF err # ""
                   THEN [@ EXCEPT !.pc = "done", !.status = 400, !.body = <<err>>]
                   ELSE [@ EXCEPT !.pc = "found",
                                  !.existing = FilenameOf(FindOne(images, req[r].key))]]
  /\ UNCHANGED <<now, images, files, unlinkQ>> /\ UNCHANGED regVars /\ UNCHANGED applyVars

\* POST /api/upload: a rejected database call is caught (lines 170-173)
UploadFail(r) ==
  /\ req[r].op = "upload"
  /\ \/ req[r].pc = "handler" /\ ValidationError(req[r].key, req[r].file) = ""
     \/ req[r].pc = "upsert"
  /\ req' = [req EXCEPT ![r] = [@ EXCEPT !.pc = "done", !.status = 500,
                                         !.body = <<"Upload failed">>, !.failed = TRUE]]
  /\ UNCHANGED <<now, images, files, unlinkQ>> /\ UNCHANGED regVars /\ UNCHANGED applyVars

\* POST /api/upload, lines 158-161: the old file is handed to fs.unlink
UploadUnlinkOld(r) ==
  /\ req[r].op = "upload" /\ req[r].pc = "found"
  /\ unlinkQ' = unlinkQ \cup
                {[path |-> p, by |-> r] : p \in OldPaths(req[r].existing, req[r].file, files)}
  /\ req' = [req EXCEPT ![r].pc = "upsert"]
  /\ UNCHANGED <<now, images, files>> /\ UNCHANGED regVars /\ UNCHANGED applyVars

\* POST /api/upload, lines 163-169: the upsert and the response
UploadFindOneAndUpdate(r) ==
  /\ req[r].op = "upload" /\ req[r].pc = "upsert"
  /\ LET url == FileUrl(req[r].file)
     IN  /\ images' = FindOneAndUpdate(images, req[r].key, url, req[r].file)
         /\ req' = [req EXCEPT ![r] =
                      [@ EXCEPT !.pc = "done", !.status = 200,
                                !.body = [success |-> TRUE, key |-> req[r].key, url |-> url]]]
  /\ UNCHANGED <<now, files, unlinkQ>> /\ UNCHANGED regVars /\ UNCHANGED applyVars

\* DELETE /api/images/:key, line 179: Image.findOneAndDelete({ key })
DeleteFindOneAndDelete(r, key) ==
  /\ Fresh(r)
  /\ images' = FindOneAndDelete(images, key)
  /\ req' = [req EXCEPT ![r] = [Idle EXCEPT !.op = "delete", !.key = key, !.pc = "deleted",
                                            !.existing = FilenameOf(FindOne(images, key))]]
  /\ UNCHANGED <<now, files, unlinkQ>> /\ UNCHANGED regVars /\ UNCHANGED applyVars

\* DELETE /api/images/:key: Image.findOneAndDelete() rejects
DeleteFail(r, key) ==
  /\ Fresh(r)
  /\ Escaped(r, "delete", key)
  /\ UNCHANGED <<now, images, files, unlinkQ>> /\ UNCHANGED regVars /\ UNCHANGED applyVars

\* DELETE /api/images/:key, lines 180-184: the unlink and the response
DeleteUnlink(r) ==
  /\ req[r].op = "delete" /\ req[r].pc = "deleted"
  /\ unlinkQ' = unlinkQ \cup
                {[path |-> p, by |-> r] : p \in DeletedPaths(req[r].existing, files)}
  /\ LET res == DeleteResponse(req[r].existing, req[r].key)
     IN  req' = [req EXCEPT ![r] = [@ EXCEPT !.pc = "done", !.status = res.status,
                                             !.body = res.body]]
  /\ UNCHANGED <<now, images, files>> /\ UNCHANGED regVars /\ UNCHANGED applyVars

\* fs.unlink(oldPath, () => {}) performed by the thread pool
UnlinkDone(q) ==
  /\ q \in unlinkQ
  /\ unlinkQ' = unlinkQ \ {q}
  /\ files' = [p \in DOMAIN files \ {q.path} |-> files[p]]
  /\ UNCHANGED <<now, images, req>> /\ UNCHANGED regVars /\ UNCHANGED applyVars

\* fs.unlink fails (EPERM, EBUSY, ...): the empty callback drops the error
UnlinkFail(q) ==
  /\ q \in unlinkQ
  /\ q.path \in DOMAIN files
  /\ unlinkQ' = unlinkQ \ {q}
  /\ UNCHANGED <<now, images, files, req>> /\ UNCHANGED regVars /\ UNCHANGED applyVars

\* the clock behind Date.now() advances
Tick ==
  /\ now < MaxTime
  /\ now' = now + 1
  /\ UNCHANGED <<images, files, unlinkQ, req>> /\ UNCHANGED regVars /\ UNCHANGED applyVars

AssetStart ==
  \/ \E r \in Reqs : ListAll(r)
  \/ \E r \in Reqs : ListAllFail(r)
  \/ \E r \in Reqs, key \in Keys : Lookup(r, key)
  \/ \E r \in Reqs, key \in Keys : LookupFail(r, key)
  \/ \E r \in Reqs, key \in Keys \cup {NoKey}, n \in OrigNames, hasFile \in BOOLEAN :
       UploadMulter(r, key, n, hasFile)
  \/ \E r \in Reqs, key \in Keys : DeleteFindOneAndDelete(r, key)
  \/ \E r \in Reqs, key \in Keys : DeleteFail(r, key)

AssetStep ==
  \/ \E r \in Reqs : UploadFindOne(r)
  \/ \E r \in Reqs : UploadFail(r)
  \/ \E r \in Reqs : UploadUnlinkOld(r)
  \/ \E r \in Reqs : UploadFindOneAndUpdate(r)
  \/ \E r \in Reqs : DeleteUnlink(r)

Unlink ==
  \/ \E q \in unlinkQ : UnlinkDone(q)
  \/ \E q \in unlinkQ : UnlinkFail(q)

\* The image asset store, requests overlapping freely.
Next == AssetStart \/ AssetStep \/ Unlink \/ Tick

Spec == Init /\ [][Next]_vars

\* The image asset store with one request at a time: a request starts only
\* when no other is in flight.  Queued unlinks still run in the background;
\* the thread pool performs every queued unlink, and no unlink fails.
Reliable == \E q \in unlinkQ : UnlinkDone(q)

SeqNext == (InFlight = {} /\ AssetStart) \/ AssetStep \/ Reliable \/ Tick

SeqSpec == Init /\ [][SeqNext]_vars /\ WF_vars(Reliable)


\* ------------------------------------------------------- POST /api/register
\* lines 389-400: User.findOne(), the 403 and the 400
RegisterFindOne(r, username, password) ==
  /\ FreshReg(r)
  /\ LET existingAdmin == users # {}
     IN  reg' = [reg EXCEPT ![r] =
                   [IdleReg EXCEPT !.username = username, !.password = password,
                                   !.existingAdmin = existingAdmin,
                                   !.pc = IF existingAdmin \/ username = "" \/ password = ""
                                          THEN "done" ELSE "hash",
                                   !.status = IF existingAdmin THEN 403
                                              ELSE IF username = "" \/ password = "" THEN 400
                                              ELSE 0]]
  /\ UNCHANGED users /\ UNCHANGED assetVars /\ UNCHANGED applyVars

\* line 402: await bcrypt.hash(password, 10)
RegisterHash(r) ==
  /\ reg[r].pc = "hash"
  /\ reg' = [reg EXCEPT ![r].pc = "save"]
  /\ UNCHANGED users /\ UNCHANGED assetVars /\ UNCHANGED applyVars

\* lines 403-406: user.save(); the unique index on username rejects a duplicate,
\* which the catch turns into a 500
RegisterSave(r) ==
  /\ reg[r].pc = "save"
  /\ IF \E u \in users : u.username = reg[r].username
     THEN /\ users' = users
          /\ reg' = [reg EXCEPT ![r].pc = "done", ![r].status = 500]
     ELSE /\ users' = users \cup {[username |-> reg[r].username,
                                    password |-> Hash(reg[r].password)]}
          /\ reg' = [reg EXCEPT ![r].pc = "done", ![r].status = 200]
  /\ UNCHANGED assetVars /\ UNCHANGED applyVars

\* lines 407-409: user.save() rejects for another reason
RegisterFail(r) ==
  /\ reg[r].pc = "save"
  /\ reg' = [reg EXCEPT ![r].pc = "done", ![r].status = 500]
  /\ UNCHANGED users /\ UNCHANGED assetVars /\ UNCHANGED applyVars

RegisterNext ==
  \/ \E r \in Regs, u \in Usernames, p \in Passwords : RegisterFindOne(r, u, p)
  \/ \E r \in Regs : RegisterHash(r)
  \/ \E r \in Regs : RegisterSave(r)
  \/ \E r \in Regs : RegisterFail(r)

RegisterSpec == Init /\ [][RegisterNext]_vars

\* ---------------------------------------------------------- POST /api/apply
\* lines 286-330: the workbook is read and the row added, in memory
ApplyReadFile(r) ==
  /\ FreshApp(r)
  /\ app' = [app EXCEPT ![r] = [IdleApp EXCEPT !.op = "apply", !.pc = "write",
                                               !.rows = AddRow(excel, r)]]
  /\ UNCHANGED excel /\ UNCHANGED assetVars /\ UNCHANGED regVars

\* lines 341-343: workbook.xlsx.writeFile(EXCEL_PATH) and the success response
ApplyWriteFile(r) ==
  /\ app[r].op = "apply" /\ app[r].pc = "write"
  /\ excel' = app[r].rows
  /\ app' = [app EXCEPT ![r].pc = "done", ![r].status = 200]
  /\ UNCHANGED assetVars /\ UNCHANGED regVars

\* lines 344-347: writeFile rejects and nothing is written
ApplyFail(r) ==
  /\ app[r].op = "apply" /\ app[r].pc = "write"
  /\ app' = [app EXCEPT ![r].pc = "done", ![r].status = 500]
  /\ UNCHANGED excel /\ UNCHANGED assetVars /\ UNCHANGED regVars

\* GET /api/applications/count
ApplicationsCount(r) ==
  /\ FreshApp(r)
  /\ app' = [app EXCEPT ![r] = [IdleApp EXCEPT !.op = "count", !.pc = "done",
                                               !.status = 200, !.count = CountRows(excel)]]
  /\ UNCHANGED excel /\ UNCHANGED assetVars /\ UNCHANGED regVars

ApplyNext ==
  \/ \E r \in Apps : ApplyReadFile(r)
  \/ \E r \in Apps : ApplyWriteFile(r)
  \/ \E r \in Apps : ApplyFail(r)
  \/ \E r \in Apps : ApplicationsCount(r)

ApplySpec == Init /\ [][ApplyNext]_vars

\* ===================================================== the image asset store

\* the step of an upload's findOneAndUpdate that answers success
UploadSucceeds(r) ==
  req[r].op = "upload" /\ req[r].pc = "upsert" /\ req'[r].pc = "done" /\ req'[r].status = 200

\* the step that performs the unlink q and removes a file
Removes(q) ==
  q \in unlinkQ /\ q \notin unlinkQ' /\ q.path \in DOMAIN files /\ q.path \notin DOMAIN files'

\* C1: in Upload to a key that already has a record, the old file is removed
\* from the uploads directory only after the upsert of the new file has
\* succeeded, so that whenever an unlink issued by an upload removes a file, in
\* whatever state the upload then is, no document references that file.
C1_OldFileRemovedOnlyAfterUpsert ==
  [][\A q \in unlinkQ :
       (Removes(q) /\ req[q.by].op = "upload")
       => /\ req[q.by].pc = "done" /\ req[q.by].status = 200
          /\ \A d \in images' : d.filename # q.path]_vars

\* C2: once two or more uploads to one key have all answered success, no other
\* request having touched the key and no unlink being pending, exactly one
\* document has that key and its file is in the uploads directory.
C2_UploadsLeaveOneRecordWithFile ==
  \A k \in Keys :
    ( /\ Cardinality({r \in Reqs : req[r].op = "upload" /\ req[r].key = k}) >= 2
      /\ \A r \in Reqs : (req[r].op # "none" /\ req[r].key = k)
                         => (req[r].op = "upload" /\ req[r].pc = "done" /\ req[r].status = 200)
      /\ unlinkQ = {} )
    => /\ Cardinality(FindOne(images, k)) = 1
       /\ \A d \in FindOne(images, k) : d.filename \in DOMAIN files

\* C4: when an upload with a key and a file answers success, a Lookup of the key
\* made at once answers the url the upload returned, and the document of the
\* key references a file that is in the uploads directory.
C4_UploadThenLookup ==
  [][\A r \in Reqs :
       UploadSucceeds(r)
       => /\ LookupResponse(images', req[r].key) =
               [status |-> 200, body |-> [key |-> req[r].key, url |-> req'[r].body.url]]
          /\ \A d \in FindOne(images', req[r].key) : d.filename \in DOMAIN files']_vars

\* the step of a DELETE that runs findOneAndDelete on key k
DeleteStarts(r, k) ==
  req[r].pc = "idle" /\ req'[r].op = "delete" /\ req'[r].key = k /\ req'[r].pc = "deleted"

\* the step of a DELETE that queues the unlink and answers
DeleteAnswers(r) ==
  req[r].op = "delete" /\ req[r].pc = "deleted" /\ req'[r].pc = "done"

\* C5: Delete(key) removes exactly the document of that key: afterwards Lookup(key)
\* answers 404 and ListAll has no entry for key, while every other key ListAll
\* had is still there with the same url, and ListAll has no new key.
C5_DeleteRemovesExactlyTheKey ==
  [][\A r \in Reqs, k \in Keys :
       DeleteStarts(r, k)
       => LET before == ListAllBody(images)
              after  == ListAllBody(images')
          IN  /\ LookupResponse(images', k).status = 404
              /\ k \notin DOMAIN after
              /\ DOMAIN after = DOMAIN before \ {k}
              /\ \A j \in DOMAIN after : after[j] = before[j]]_vars

C5_Witness ==
  \E r \in Reqs :
    /\ req[r].op = "delete" /\ req[r].pc = "done" /\ req[r].existing # NoFile
    /\ \E d \in images : d.key # req[r].key

\* C6: every image request in which a database call fails ends with a 500
\* response sent by the handler: the failure never leaves the handler and the
\* request is never left without a response.
C6_FailuresAnswer500 ==
  \A r \in Reqs : req[r].failed => (req[r].status = 500 /\ ~req[r].escaped)

\* C7: an upload whose key is missing or empty is answered 400; none of its
\* steps changes the collection or queues an unlink, no file is removed, and
\* the only file written is the upload's own.
C7_UploadWithoutKey ==
  [][\A r \in Reqs :
       (req'[r] # req[r] /\ req'[r].op = "upload" /\ req'[r].key = NoKey)
       => /\ images' = images
          /\ unlinkQ' = unlinkQ
          /\ DOMAIN files \subseteq DOMAIN files'
          /\ DOMAIN files' \subseteq DOMAIN files \cup {req'[r].file}
          /\ \A p \in DOMAIN files : p # req'[r].file => files'[p] = files[p]
          /\ req'[r].pc \in {"handler", "done"}
          /\ req'[r].pc = "done" => (req'[r].status = 400 /\ files' = files)]_vars

C7_Witness ==
  \E r \in Reqs :
    /\ req[r].op = "upload" /\ req[r].key = NoKey /\ req[r].pc = "done"
    /\ req[r].status = 400
    /\ req[r].file # NoFile /\ req[r].file \in DOMAIN files
    /\ \A d \in images : d.filename # req[r].file

\* C8: a DELETE whose database call succeeds answers 200 with success and the
\* key, whether or not a document existed; when none existed, neither of its
\* steps changes the collection, the uploads directory or the unlink queue.
C8_DeleteAlwaysSucceeds ==
  [][\A r \in Reqs :
       /\ \A k \in Keys :
            (DeleteStarts(r, k) /\ FindOne(images, k) = {})
            => (images' = images /\ files' = files /\ unlinkQ' = unlinkQ)
       /\ DeleteAnswers(r)
          => /\ req'[r].status = 200
             /\ req'[r].body = [success |-> TRUE, key |-> req[r].key]
             /\ req[r].existing = NoFile
                => (images' = images /\ files' = files /\ unlinkQ' = unlinkQ)]_vars

C8_Witness ==
  \E r \in Reqs :
    /\ req[r].op = "delete" /\ req[r].pc = "done" /\ req[r].existing = NoFile
    /\ req[r].status = 200

\* ------------------------------------------- one request at a time (SeqSpec)
\* an upload that answered success and replaced the file of an earlier upload
Reupload(r) ==
  /\ req[r].op = "upload" /\ req[r].pc = "done" /\ req[r].status = 200
  /\ req[r].existing # NoFile /\ req[r].existing # req[r].file

\* the file of the earlier upload is still in the uploads directory
Stale(r) ==
  /\ Reupload(r)
  /\ req[r].existing \in DOMAIN files
  /\ files[req[r].existing] < r

\* a Lookup that directly follows the upload r on the same key
LookupFollows(r) ==
  /\ r + 1 \in Reqs
  /\ req[r + 1].op = "lookup" /\ req[r + 1].pc = "done" /\ ~req[r + 1].failed
  /\ req[r + 1].key = req[r].key

\* C3: requests running one at a time and unlink not failing, after a second
\* upload of a key (with a different file) has answered success, the file of
\* the first upload is eventually gone from the uploads directory, and a
\* Lookup of the key that follows answers the url of the second upload.
C3_SecondUploadReplacesFirst ==
  /\ [](\A r \in Reqs :
          (Reupload(r) /\ LookupFollows(r))
          => (req[r + 1].status = 200 /\ req[r + 1].body.url = req[r].body.url))
  /\ \A r \in Reqs : Stale(r) ~> ~Stale(r)

C3_Witness ==
  \E r \in Reqs :
    /\ Reupload(r) /\ LookupFollows(r)
    /\ req[r].existing \notin DOMAIN files
    /\ req[r].file \in DOMAIN files


\* ======================================================= admin registration
\* C9: registration is one-time only: at most one user document ever exists,
\* and every register request whose findOne saw a user was answered 403 at
\* once, without saving anything.
C9_OneTimeRegistration ==
  /\ Cardinality(users) <= 1
  /\ \A r \in Regs : reg[r].existingAdmin => (reg[r].pc = "done" /\ reg[r].status = 403)

\* ========================================================= job applications
\* C10: when /api/applications/count is answered while no application is in
\* flight, it returns the number of applications that were answered success.
C10_CountEqualsAcknowledged ==
  [][\A c \in Apps :
       ( /\ app[c].pc = "idle" /\ app'[c].op = "count"
         /\ \A r \in Apps : app[r].pc \in {"idle", "done"} )
       => app'[c].count = Cardinality(Acked)]_vars

====
